---- MODULE Spec2Model ----
(***************************************************************************)
(* Model of the mssmt crate of taproot-asset-rs: the NodeHash value type   *)
(* with its hex parsing and formatting, the tagged-enum node model and     *)
(* Tree::init of mssmt/src/tree.rs, and the trait-object node model of     *)
(* mssmt/src/node.rs.                                                      *)
(*                                                                         *)
(* The crate has no shared state between these parts, so the model runs    *)
(* one entry point per behaviour (variable entry): a behaviour exercises   *)
(* Tree::init, or builds and queries an enum node, or builds and queries   *)
(* a trait node, or parses and formats a NodeHash.                         *)
(***************************************************************************)
EXTENDS Integers, Sequences, FiniteSets, TLC

(* ----------------------------------------------------------------------- *)
(* Program constants                                                       *)
(* ----------------------------------------------------------------------- *)
MAX_TREE_LEVEL == 256

LAST_BIT_INDEX == MAX_TREE_LEVEL - 1

\* the width of NodeHash, pub struct NodeHash(pub [u8; 32])
HASH_SIZE == 32

\* the length from_str demands, s.len() != 64
HEX_STR_LEN == 64

\* the width of u64::to_be_bytes
U64_BYTES == 8

(* ----------------------------------------------------------------------- *)
(* Bounds of the model                                                     *)
(* ----------------------------------------------------------------------- *)
\* how many characters of an input string (bytes of an input digest) vary;
\* the remaining positions are the character '0' (the byte 0)
MaxVar == 2

\* how many Branch levels a node under test has
MaxDepth == 2

\* how many times hash() is called on one node
MaxCalls == 2

(* ----------------------------------------------------------------------- *)
(* Option and Result                                                       *)
(* ----------------------------------------------------------------------- *)
None == <<>>

Some(x) == <<x>>

is_some(o) == Len(o) = 1

unwrap(o) == o[1]

Range(f) == {f[i] : i \in DOMAIN f}

(* ----------------------------------------------------------------------- *)
(* Byte strings.  A run of bytes is a sequence of chunks; a chunk is       *)
(* either literal bytes (lit, with pre empty) or the 32 bytes of the       *)
(* SHA-256 digest of the byte string pre (lit empty).  SHA-256 is the      *)
(* ideal hash: distinct preimages give distinct digests, and no digest     *)
(* equals a literal the program writes down.                               *)
(* ----------------------------------------------------------------------- *)
Lit(bytes) == [lit |-> bytes, pre |-> <<>>]

Sha256(preimage) == [lit |-> <<>>, pre |-> preimage]

IsLit(c) == c.pre = <<>>

\* hash_engine.input(x): x appended to what the engine was fed before;
\* adjacent literal chunks merge, so the split into input() calls is not
\* part of the preimage
Input(engine, c) ==
    IF engine # <<>> /\ IsLit(c) /\ IsLit(engine[Len(engine)])
    THEN [engine EXCEPT ![Len(engine)] = Lit(engine[Len(engine)].lit \o c.lit)]
    ELSE Append(engine, c)

Zeros(n) == [i \in 1..n |-> 0]

\* u64::to_be_bytes; the sums of the model stay below 2^31, so the four
\* high bytes are 0
to_be_bytes(n) ==
    [i \in 1..U64_BYTES |->
        IF i <= 4 THEN 0 ELSE (n \div (256 ^ (U64_BYTES - i))) % 256]

(* ----------------------------------------------------------------------- *)
(* NodeHash                                                                *)
(* ----------------------------------------------------------------------- *)
\* NodeHash(b): the tuple struct is its one field
NodeHash(b) == b

NodeHash_default == NodeHash(Lit(Zeros(HASH_SIZE)))

(* ----------------------------------------------------------------------- *)
(* Strings.  A &str is a sequence of characters; its len() and the hex     *)
(* decoder work on its UTF-8 bytes.                                        *)
(* ----------------------------------------------------------------------- *)
DigitChars == <<"0", "1", "2", "3", "4", "5", "6", "7", "8", "9">>

UpperChars == <<"A", "B", "C", "D", "E", "F", "G">>

LowerChars == <<"a", "b", "c", "d", "e", "f", "g">>

\* LATIN SMALL LETTER E WITH ACUTE, two bytes in UTF-8
EAcute == "U+00E9"

PosIn(seq, c) == CHOOSE i \in 1..Len(seq) : seq[i] = c

Utf8(c) ==
    IF c = EAcute THEN <<195, 169>>
    ELSE IF c \in Range(DigitChars) THEN <<47 + PosIn(DigitChars, c)>>
    ELSE IF c \in Range(UpperChars) THEN <<64 + PosIn(UpperChars, c)>>
    ELSE <<96 + PosIn(LowerChars, c)>>

RECURSIVE as_bytes(_)
as_bytes(s) == IF s = <<>> THEN <<>> ELSE Utf8(Head(s)) \o as_bytes(Tail(s))

Ok(v) == [ok |-> TRUE, val |-> v]

Err(e) == [ok |-> FALSE, err |-> e]

\* the value of one hex digit given as a byte, -1 for any other byte
HexDigitVal(b) ==
    IF b >= 48 /\ b <= 57 THEN b - 48
    ELSE IF b >= 97 /\ b <= 102 THEN b - 87
    ELSE IF b >= 65 /\ b <= 70 THEN b - 55
    ELSE -1

\* <[u8; 32]>::from_hex
from_hex(b) ==
    IF Len(b) # 2 * HASH_SIZE THEN Err("InvalidLength")
    ELSE IF \E i \in 1..Len(b) : HexDigitVal(b[i]) = -1
         THEN Err("InvalidChar")
         ELSE Ok([i \in 1..HASH_SIZE |->
                    16 * HexDigitVal(b[2 * i - 1]) + HexDigitVal(b[2 * i])])

\* a plausible slip: a string that is too long is cut, not refused
from_str_truncating(s) ==
    LET b == as_bytes(s) IN
    IF Len(b) < HEX_STR_LEN THEN Err("Invalid string length")
    ELSE LET r == from_hex(SubSeq(b, 1, HEX_STR_LEN)) IN
         IF r.ok THEN Ok(NodeHash(Lit(r.val))) ELSE Err("Hex to array error")

\* impl FromStr for NodeHash
from_str(s) ==
    LET b == as_bytes(s) IN
    IF Len(b) # HEX_STR_LEN THEN Err("Invalid string length")
    ELSE LET r == from_hex(b) IN
         IF r.ok THEN Ok(NodeHash(Lit(r.val))) ELSE Err("Hex to array error")

HexLower == DigitChars \o SubSeq(LowerChars, 1, 6)

HexUpper == DigitChars \o SubSeq(UpperChars, 1, 6)

\* DisplayHex::as_hex().to_string(): two lowercase digits a byte, high
\* nibble first, the bytes in array order
as_hex(bytes) ==
    [i \in 1..(2 * Len(bytes)) |->
        LET byte == bytes[(i + 1) \div 2] IN
        IF i % 2 = 1 THEN HexLower[(byte \div 16) + 1] ELSE HexLower[(byte % 16) + 1]]

\* a plausible slip: the digest shown last byte first
fmt_reversed(h) ==
    as_hex([i \in 1..Len(h.lit) |-> h.lit[Len(h.lit) + 1 - i]])

\* a plausible slip: the digest shown in uppercase
fmt_upper(h) ==
    [i \in 1..(2 * Len(h.lit)) |->
        LET byte == h.lit[(i + 1) \div 2] IN
        IF i % 2 = 1 THEN HexUpper[(byte \div 16) + 1] ELSE HexUpper[(byte % 16) + 1]]

\* impl Display for NodeHash
fmt(h) == as_hex(h.lit)

(* ----------------------------------------------------------------------- *)
(* tree.rs: the tagged-enum node model                                     *)
(* ----------------------------------------------------------------------- *)
\* BranchNode::new
tree_BranchNode_new(left, right) ==
    [left |-> left, right |-> right, hash |-> None, sum |-> 0]

\* LeafNode { value, sum, hash: None }
tree_LeafNode(value, sum) == [value |-> value, sum |-> sum, hash |-> None]

\* impl Default for LeafNode
LeafNode_default == [value |-> Zeros(HASH_SIZE), sum |-> 0, hash |-> None]

\* enum Node
Branch(bn) == [kind |-> "Branch", bn |-> bn]

Leaf(ln) == [kind |-> "Leaf", ln |-> ln]

ComputedNode(hash, sum) == [kind |-> "ComputedNode", hash |-> hash, sum |-> sum]

Nil == [kind |-> "Nil"]

\* Node::hash(&mut self): ret is the digest returned, self the node as the
\* call leaves it
RECURSIVE Node_hash(_)
Node_hash(self) ==
    CASE self.kind = "Branch" ->
           LET bn == self.bn IN
           IF is_some(bn.hash) THEN [ret |-> unwrap(bn.hash), self |-> self]
           ELSE LET l == Node_hash(bn.left)
                    r == Node_hash(bn.right)
                    engine == Input(Input(Input(<<>>, l.ret), r.ret),
                                    Lit(to_be_bytes(bn.sum)))
                    res == NodeHash(Sha256(engine))
                IN [ret |-> res,
                    self |-> Branch([bn EXCEPT !.left = l.self, !.right = r.self,
                                               !.hash = Some(res)])]
      [] self.kind = "Leaf" ->
           LET ln == self.ln IN
           IF is_some(ln.hash) THEN [ret |-> unwrap(ln.hash), self |-> self]
           ELSE LET engine == Input(Input(<<>>, Lit(ln.value)), Lit(to_be_bytes(ln.sum)))
                    res == NodeHash(Sha256(engine))
                IN [ret |-> res, self |-> Leaf([ln EXCEPT !.hash = Some(res)])]
      [] self.kind = "ComputedNode" -> [ret |-> self.hash, self |-> self]
      [] self.kind = "Nil" -> [ret |-> NodeHash_default, self |-> self]

\* Node::sum(&self); the sums of the model stay far below u64::MAX, where
\* the addition neither wraps nor aborts
RECURSIVE Node_sum(_)
Node_sum(self) ==
    CASE self.kind = "Branch" -> Node_sum(self.bn.left) + Node_sum(self.bn.right)
      [] self.kind = "Leaf" -> self.ln.sum
      [] self.kind = "ComputedNode" -> 0
      [] self.kind = "Nil" -> 0

RECURSIVE Depth(_)
Depth(n) ==
    IF n.kind = "Branch"
    THEN 1 + (IF Depth(n.bn.left) > Depth(n.bn.right)
              THEN Depth(n.bn.left) ELSE Depth(n.bn.right))
    ELSE 0

(* ----------------------------------------------------------------------- *)
(* tree.rs: Tree::init                                                     *)
(* ----------------------------------------------------------------------- *)
\* Vec::with_capacity: room for n elements, none of them present
with_capacity(n) == [items |-> <<>>, cap |-> n]

\* the bounds check of Vec's Index and IndexMut (indexes count from 0)
InBounds(v, idx) == idx >= 0 /\ idx < Len(v.items)

Index(v, idx) == v.items[idx + 1]

IndexSet(v, idx, x) == [v EXCEPT !.items[idx + 1] = x]

\* (0..LAST_BIT_INDEX).rev().for_each(closure), from idx down to 0
RECURSIVE for_each_rev(_, _)
for_each_rev(v, idx) ==
    IF idx < 0 THEN [panicked |-> FALSE, vec |-> v]
    ELSE IF ~InBounds(v, idx + 1) THEN [panicked |-> TRUE, vec |-> v]
    ELSE LET branch == tree_BranchNode_new(Index(v, idx + 1), Index(v, idx + 1)) IN
         IF ~InBounds(v, idx) THEN [panicked |-> TRUE, vec |-> v]
         ELSE for_each_rev(IndexSet(v, idx, Branch(branch)), idx - 1)

\* Tree::init from the store into tree_levels[MAX_TREE_LEVEL] to the return
Tree_init_from_store(v, leaf) ==
    IF ~InBounds(v, MAX_TREE_LEVEL) THEN [panicked |-> TRUE, tree |-> None]
    ELSE LET looped == for_each_rev(IndexSet(v, MAX_TREE_LEVEL, leaf), LAST_BIT_INDEX - 1) IN
         IF looped.panicked \/ ~InBounds(looped.vec, 0)
         THEN [panicked |-> TRUE, tree |-> None]
         ELSE LET h == Node_hash(Index(looped.vec, 0)) IN
              [panicked |-> FALSE,
               tree |-> Some([root_hash |-> h.ret,
                              tree |-> IndexSet(looped.vec, 0, h.self)])]

(* ----------------------------------------------------------------------- *)
(* node.rs: the trait-object node model                                    *)
(* ----------------------------------------------------------------------- *)
\* struct LeafNode, as a struct literal with the hash not yet computed
node_LeafNode(value, sum) ==
    [kind |-> "LeafNode", value |-> value, sum |-> sum, hash |-> None]

\* BranchNode::new
node_BranchNode_new(left, right) ==
    [kind |-> "BranchNode", left |-> left, right |-> right,
     hash |-> Some(NodeHash_default), sum |-> 0]

\* LeafNode::is_empty
is_empty(self) == Len(self.value) = 0 /\ self.sum = 0

\* <LeafNode as Node>::hash
LeafNode_hash(self) ==
    IF is_some(self.hash) THEN unwrap(self.hash)
    ELSE LET engine == Input(Input(<<>>, Lit(self.value)), Lit(to_be_bytes(self.sum)))
         IN NodeHash(Sha256(engine))

\* <dyn Node>::hash and <BranchNode as Node>::hash
RECURSIVE dyn_hash(_)
dyn_hash(self) ==
    IF self.kind = "LeafNode" THEN LeafNode_hash(self)
    ELSE IF is_some(self.hash) THEN unwrap(self.hash)
    ELSE LET left_hash == dyn_hash(self.left)
             right_hash == dyn_hash(self.right)
             engine == Input(Input(Input(<<>>, left_hash), right_hash),
                             Lit(to_be_bytes(self.sum)))
         IN NodeHash(Sha256(engine))

\* <dyn Node>::sum: LeafNode::sum and BranchNode::sum
RECURSIVE dyn_sum(_)
dyn_sum(self) ==
    IF self.kind = "LeafNode" THEN self.sum
    ELSE dyn_sum(self.left) + dyn_sum(self.right)

RECURSIVE dyn_depth(_)
dyn_depth(n) ==
    IF n.kind = "BranchNode"
    THEN 1 + (IF dyn_depth(n.left) > dyn_depth(n.right)
              THEN dyn_depth(n.left) ELSE dyn_depth(n.right))
    ELSE 0

(* ----------------------------------------------------------------------- *)
(* Inputs                                                                  *)
(* ----------------------------------------------------------------------- *)
\* characters an input string varies over: hex digits of both cases, a
\* letter that is no hex digit, and a character of two UTF-8 bytes
Alphabet == {"1", "9", "a", "f", "C", "g", EAcute}

ByteSamples == {0, 1, 16, 171, 255}

SumSamples == {0, 5}

ValueSamples == {Zeros(HASH_SIZE), [i \in 1..HASH_SIZE |-> IF i = 1 THEN 7 ELSE 0]}

SeqsUpTo(S, n) == UNION {[1..k -> S] : k \in 0..n}

Repeat(c, n) == [i \in 1..n |-> c]

\* strings of 63, 64 and 65 characters: up to MaxVar chosen characters at
\* the front or at the back of a run of '0'
StrInputs ==
    {IF front THEN var \o Repeat("0", n - Len(var)) ELSE Repeat("0", n - Len(var)) \o var :
        var \in SeqsUpTo(Alphabet, MaxVar),
        n \in (HEX_STR_LEN - 1)..(HEX_STR_LEN + 1),
        front \in BOOLEAN}

\* digests: up to MaxVar chosen bytes in front of a run of zero bytes
HashInputs ==
    {NodeHash(Lit(var \o Zeros(HASH_SIZE - Len(var)))) : var \in SeqsUpTo(ByteSamples, MaxVar)}

\* the (hash, sum) pairs a ComputedNode is built from
ComputedHashSamples ==
    {NodeHash(Lit(Repeat(171, HASH_SIZE))),
     Node_hash(Leaf(tree_LeafNode(Zeros(HASH_SIZE), 5))).ret}

\* the nodes a Branch under construction gets as its other child
SiblingSamples ==
    {Leaf(LeafNode_default),
     Leaf(tree_LeafNode([i \in 1..HASH_SIZE |-> IF i = 1 THEN 7 ELSE 0], 5)),
     ComputedNode(NodeHash(Lit(Repeat(171, HASH_SIZE))), 5),
     Nil}

dyn_SiblingSamples ==
    {node_LeafNode(Zeros(HASH_SIZE), 0),
     node_LeafNode([i \in 1..HASH_SIZE |-> IF i = 1 THEN 7 ELSE 0], 5)}

(* ----------------------------------------------------------------------- *)
(* State                                                                   *)
(* ----------------------------------------------------------------------- *)
VARIABLES
    entry,        \* the entry point this behaviour exercises
    ipc,          \* Tree::init: where the call stands
    tree_levels,  \* Tree::init: the local Vec<Node>
    pending,      \* Tree::init: the node built for a slot and not yet stored
    tree,         \* Tree::init: the Tree returned, if any
    node,         \* tree.rs: the Node under test, if built
    digests,      \* tree.rs: what the hash() calls on node returned, in order
    sumret,       \* tree.rs: what the last sum() call on node returned
    tnode,        \* node.rs: the node under test, if built
    thash,        \* node.rs: what hash() returned
    tsum,         \* node.rs: what sum() returned
    tempty,       \* node.rs: what is_empty() returned
    hexpc,        \* NodeHash: where the parse/format program stands
    in_str,       \* NodeHash: the string given
    in_hash,      \* NodeHash: the digest given
    res,          \* NodeHash: what the last from_str returned
    out           \* NodeHash: what the last to_string returned

initVars == <<ipc, tree_levels, pending, tree>>

enumVars == <<node, digests, sumret>>

dynVars == <<tnode, thash, tsum, tempty>>

hexVars == <<hexpc, in_str, in_hash, res, out>>

vars == <<entry, initVars, enumVars, dynVars, hexVars>>

Init ==
    /\ entry \in {"Tree::init", "tree::Node", "node::Node", "NodeHash"}
    /\ ipc = "start" /\ tree_levels = with_capacity(0) /\ pending = None /\ tree = None
    /\ node = None /\ digests = <<>> /\ sumret = None
    /\ tnode = None /\ thash = None /\ tsum = None /\ tempty = None
    /\ res = None /\ out = None
    /\ \/ /\ entry = "NodeHash"
          /\ \/ hexpc = "str_given" /\ in_hash = None
                /\ \E s \in StrInputs : in_str = Some(s)
             \/ hexpc = "hash_given" /\ in_str = None
                /\ \E h \in HashInputs : in_hash = Some(h)
       \/ /\ entry # "NodeHash"
          /\ hexpc = "idle" /\ in_str = None /\ in_hash = None

(* ----------------------------------------------------------------------- *)
(* Tree::init                                                              *)
(* ----------------------------------------------------------------------- *)
\* let mut tree_levels = Vec::with_capacity(MAX_TREE_LEVEL + 1)
Tree_init_alloc ==
    /\ entry = "Tree::init" /\ ipc = "start"
    /\ tree_levels' = with_capacity(MAX_TREE_LEVEL + 1)
    /\ ipc' = "allocated"
    /\ UNCHANGED <<entry, pending, tree, enumVars, dynVars, hexVars>>

\* the right-hand side of the first store, Node::Leaf(LeafNode::default()),
\* which Rust evaluates before the place it is stored to
Tree_init_leaf ==
    /\ entry = "Tree::init" /\ ipc = "allocated"
    /\ pending' = Some(Leaf(LeafNode_default))
    /\ ipc' = "leaf_built"
    /\ UNCHANGED <<entry, tree_levels, tree, enumVars, dynVars, hexVars>>

\* the store, the loop and the return; a panic unwinds and drops the locals
Tree_init_store ==
    /\ entry = "Tree::init" /\ ipc = "leaf_built"
    /\ LET r == Tree_init_from_store(tree_levels, unwrap(pending)) IN
       /\ ipc' = IF r.panicked THEN "panicked" ELSE "returned"
       /\ tree' = r.tree
       /\ tree_levels' = IF r.panicked THEN tree_levels ELSE unwrap(r.tree).tree
       /\ pending' = None
    /\ UNCHANGED <<entry, enumVars, dynVars, hexVars>>

(* ----------------------------------------------------------------------- *)
(* tree.rs nodes                                                           *)
(* ----------------------------------------------------------------------- *)
NewLeaf ==
    /\ entry = "tree::Node" /\ node = None
    /\ \E v \in ValueSamples, s \in SumSamples :
          node' = Some(Leaf(IF v = Zeros(HASH_SIZE) /\ s = 0
                            THEN LeafNode_default ELSE tree_LeafNode(v, s)))
    /\ UNCHANGED <<entry, digests, sumret, initVars, dynVars, hexVars>>

NewComputedNode ==
    /\ entry = "tree::Node" /\ node = None
    /\ \E h \in ComputedHashSamples, s \in SumSamples : node' = Some(ComputedNode(h, s))
    /\ UNCHANGED <<entry, digests, sumret, initVars, dynVars, hexVars>>

NewNil ==
    /\ entry = "tree::Node" /\ node = None
    /\ node' = Some(Nil)
    /\ UNCHANGED <<entry, digests, sumret, initVars, dynVars, hexVars>>

\* BranchNode::new over the node under test and a sibling, or over two
\* clones of the node under test as Tree::init does
NewBranch ==
    /\ entry = "tree::Node" /\ node # None
    /\ Depth(unwrap(node)) < MaxDepth
    /\ \E sib \in SiblingSamples \cup {unwrap(node)}, onLeft \in BOOLEAN :
          node' = Some(Branch(tree_BranchNode_new(
                            IF onLeft THEN unwrap(node) ELSE sib,
                            IF onLeft THEN sib ELSE unwrap(node))))
    /\ digests' = <<>>
    /\ sumret' = None
    /\ UNCHANGED <<entry, initVars, dynVars, hexVars>>

HashCall ==
    /\ entry = "tree::Node" /\ node # None
    /\ Len(digests) < MaxCalls
    /\ LET r == Node_hash(unwrap(node)) IN
       /\ node' = Some(r.self)
       /\ digests' = Append(digests, r.ret)
    /\ UNCHANGED <<entry, sumret, initVars, dynVars, hexVars>>

SumCall ==
    /\ entry = "tree::Node" /\ node # None
    /\ sumret = None
    /\ sumret' = Some(Node_sum(unwrap(node)))
    /\ UNCHANGED <<entry, node, digests, initVars, dynVars, hexVars>>

(* ----------------------------------------------------------------------- *)
(* node.rs nodes                                                           *)
(* ----------------------------------------------------------------------- *)
dyn_NewLeaf ==
    /\ entry = "node::Node" /\ tnode = None
    /\ \E v \in ValueSamples, s \in SumSamples : tnode' = Some(node_LeafNode(v, s))
    /\ UNCHANGED <<entry, thash, tsum, tempty, initVars, enumVars, hexVars>>

dyn_NewBranch ==
    /\ entry = "node::Node" /\ tnode # None
    /\ dyn_depth(unwrap(tnode)) < MaxDepth
    /\ \E sib \in dyn_SiblingSamples, onLeft \in BOOLEAN :
          tnode' = Some(node_BranchNode_new(
                            IF onLeft THEN unwrap(tnode) ELSE sib,
                            IF onLeft THEN sib ELSE unwrap(tnode)))
    /\ thash' = None /\ tsum' = None /\ tempty' = None
    /\ UNCHANGED <<entry, initVars, enumVars, hexVars>>

dyn_HashCall ==
    /\ entry = "node::Node" /\ tnode # None /\ thash = None
    /\ thash' = Some(dyn_hash(unwrap(tnode)))
    /\ UNCHANGED <<entry, tnode, tsum, tempty, initVars, enumVars, hexVars>>

dyn_SumCall ==
    /\ entry = "node::Node" /\ tnode # None /\ tsum = None
    /\ tsum' = Some(dyn_sum(unwrap(tnode)))
    /\ UNCHANGED <<entry, tnode, thash, tempty, initVars, enumVars, hexVars>>

IsEmptyCall ==
    /\ entry = "node::Node" /\ tnode # None /\ tempty = None
    /\ unwrap(tnode).kind = "LeafNode"
    /\ tempty' = Some(is_empty(unwrap(tnode)))
    /\ UNCHANGED <<entry, tnode, thash, tsum, initVars, enumVars, hexVars>>

(* ----------------------------------------------------------------------- *)
(* NodeHash: parse then format, or format then parse                       *)
(* ----------------------------------------------------------------------- *)
\* s.parse::<NodeHash>() on the string given, or on the string just shown
FromStrCall ==
    /\ entry = "NodeHash" /\ hexpc \in {"str_given", "shown"}
    /\ res' = Some(from_str(unwrap(IF hexpc = "str_given" THEN in_str ELSE out)))
    /\ hexpc' = IF hexpc = "str_given" THEN "parsed" ELSE "shown_parsed"
    /\ UNCHANGED <<entry, in_str, in_hash, out, initVars, enumVars, dynVars>>

\* h.to_string() on the digest given, or on the digest just parsed
ToStringCall ==
    /\ entry = "NodeHash"
    /\ \/ hexpc = "hash_given"
       \/ hexpc = "parsed" /\ unwrap(res).ok
    /\ out' = Some(fmt(IF hexpc = "hash_given" THEN unwrap(in_hash) ELSE unwrap(res).val))
    /\ hexpc' = IF hexpc = "hash_given" THEN "shown" ELSE "parsed_shown"
    /\ UNCHANGED <<entry, in_str, in_hash, res, initVars, enumVars, dynVars>>

Next ==
    \/ Tree_init_alloc \/ Tree_init_leaf \/ Tree_init_store
    \/ NewLeaf \/ NewComputedNode \/ NewNil \/ NewBranch \/ HashCall \/ SumCall
    \/ dyn_NewLeaf \/ dyn_NewBranch \/ dyn_HashCall \/ dyn_SumCall \/ IsEmptyCall
    \/ FromStrCall \/ ToStringCall

Spec == Init /\ [][Next]_vars

(* ----------------------------------------------------------------------- *)
(* Properties                                                              *)
(* ----------------------------------------------------------------------- *)
\* Empty.hash(d) as documented: SHA-256(zero32 || be64(0)) at depth 256,
\* SHA-256(Empty.hash(d+1) || Empty.hash(d+1) || be64(0)) above it
RECURSIVE EmptyHash(_)
EmptyHash(d) ==
    IF d >= MAX_TREE_LEVEL
    THEN Sha256(Input(Input(<<>>, Lit(Zeros(HASH_SIZE))), Lit(to_be_bytes(0))))
    ELSE Sha256(Input(Input(Input(<<>>, EmptyHash(d + 1)), EmptyHash(d + 1)),
                      Lit(to_be_bytes(0))))

\* the sum a node stands for: a Leaf's and a ComputedNode's own sum, a
\* Branch's children added up
RECURSIVE CommittedSum(_)
CommittedSum(n) ==
    CASE n.kind = "Branch" -> CommittedSum(n.bn.left) + CommittedSum(n.bn.right)
      [] n.kind = "Leaf" -> n.ln.sum
      [] n.kind = "ComputedNode" -> n.sum
      [] n.kind = "Nil" -> 0

IsZeroLeaf(n) == n.kind = "Leaf" /\ n.ln.value = Zeros(HASH_SIZE) /\ n.ln.sum = 0

IsHexChar(c) == c \in Range(HexLower) \cup Range(HexUpper)

ToLowerChar(c) == IF c \in Range(UpperChars) THEN LowerChars[PosIn(UpperChars, c)] ELSE c

ToLower(s) == [i \in 1..Len(s) |-> ToLowerChar(s[i])]

\* C1: Tree::init never aborts, and the Tree it returns holds exactly 257
\* populated levels, indexes 0 to 256, with root_hash the hash of level 0.
C1_InitCompletes ==
    /\ ipc # "panicked"
    /\ ipc = "returned" =>
          LET t == unwrap(tree) IN
          /\ Len(t.tree.items) = MAX_TREE_LEVEL + 1
          /\ t.root_hash = Node_hash(Index(t.tree, 0)).ret

\* C2: once Tree::init has ended, every level d in 0..256 of its table is
\* populated with sum 0 and hash Empty.hash(d), and every level below 256
\* is a Branch over two copies of level d+1.
C2_LevelTable ==
    ipc \in {"returned", "panicked"} =>
        \A d \in 0..MAX_TREE_LEVEL :
            /\ InBounds(tree_levels, d)
            /\ Node_sum(Index(tree_levels, d)) = 0
            /\ Node_hash(Index(tree_levels, d)).ret = EmptyHash(d)
            /\ d < MAX_TREE_LEVEL =>
                  /\ Index(tree_levels, d).kind = "Branch"
                  /\ Node_hash(Index(tree_levels, d).bn.left).ret = EmptyHash(d + 1)
                  /\ Node_hash(Index(tree_levels, d).bn.right).ret = EmptyHash(d + 1)

\* C3: the digest hash() returns for a Branch built by BranchNode::new is
\* SHA-256(left.hash || right.hash || be64(S)) with S = left.sum + right.sum,
\* the value sum() reports for the Branch.
C3_BranchHashCommitsSum ==
    (node # None /\ unwrap(node).kind = "Branch" /\ digests # <<>>) =>
        LET bn == unwrap(node).bn
            S == Node_sum(bn.left) + Node_sum(bn.right)
        IN /\ digests[Len(digests)] =
                 Sha256(Input(Input(Input(<<>>, Node_hash(bn.left).ret),
                                    Node_hash(bn.right).ret),
                              Lit(to_be_bytes(S))))
           /\ sumret # None => unwrap(sumret) = S

\* C4: a ComputedNode built from (h, s) answers hash() with h and sum() with
\* s, and the sum() of a Branch counts the s of every ComputedNode below it.
C4_ComputedNodePair ==
    node # None =>
        /\ unwrap(node).kind = "ComputedNode" =>
              \A i \in DOMAIN digests : digests[i] = unwrap(node).hash
        /\ sumret # None => unwrap(sumret) = CommittedSum(unwrap(node))

\* C5: hash() never returns the all-zero default digest for a Branch, a Leaf
\* or Nil of tree.rs, nor for a BranchNode or LeafNode of node.rs.
C5_NoZeroCommitment ==
    /\ (node # None /\ unwrap(node).kind # "ComputedNode") =>
          \A i \in DOMAIN digests : digests[i] # NodeHash_default
    /\ thash # None => unwrap(thash) # NodeHash_default

\* C6: from_str returns Ok exactly for the strings of 64 characters that are
\* all hex digits, and an error value for every other string.
C6_ParseErrors ==
    hexpc = "parsed" =>
        LET s == unwrap(in_str)
            r == unwrap(res)
        IN /\ r.ok <=> (Len(s) = HEX_STR_LEN /\ \A i \in DOMAIN s : IsHexChar(s[i]))
           /\ ~r.ok => r.err # ""

\* a string of 63 characters and 64 bytes has been refused
C6_Witness ==
    /\ hexpc = "parsed" /\ ~unwrap(res).ok
    /\ Len(unwrap(in_str)) = HEX_STR_LEN - 1
    /\ Len(as_bytes(unwrap(in_str))) = HEX_STR_LEN

\* C7: formatting a digest and parsing the string gives Ok and the same 32
\* bytes in the same order.
C7_RoundTrip ==
    hexpc = "shown_parsed" => (unwrap(res).ok /\ unwrap(res).val = unwrap(in_hash))

\* a digest whose first two bytes differ has made the round trip
C7_Witness ==
    /\ hexpc = "shown_parsed"
    /\ unwrap(in_hash).lit[1] = 171 /\ unwrap(in_hash).lit[2] = 1

\* C8 as stated: for every string s that parsing accepts,
\* format(parse(s)) = s.
C8_FormatParseIdentity ==
    hexpc = "parsed_shown" => unwrap(out) = unwrap(in_str)

\* C8 as amended: for every string s that parsing accepts, format(parse(s))
\* is s with its digits A-F put in lowercase, so it is s exactly when s has
\* no uppercase digit.
C8_FormatParseLowercases ==
    hexpc = "parsed_shown" =>
        LET s == unwrap(in_str) IN
        /\ unwrap(out) = ToLower(s)
        /\ unwrap(out) = s <=> (\A i \in DOMAIN s : s[i] \notin Range(UpperChars))

\* a string with an uppercase digit has been parsed and formatted
C8_Witness ==
    /\ hexpc = "parsed_shown"
    /\ \E i \in DOMAIN unwrap(in_str) : unwrap(in_str)[i] = "C"

\* C9: no hash() or sum() call changes a field of the node or of its
\* descendants, and every hash() call returns what the first one returned.
C9_CallsLeaveNodeUnchanged ==
    [][(HashCall \/ SumCall) =>
          /\ node' = node
          /\ \A i \in DOMAIN digests' : digests'[i] = digests'[1]]_vars

\* C10: no node Tree::init builds for a level, stores in the table or gives
\* an entry as a child is a zero-filled Leaf, and is_empty does not call a
\* zero-value, zero-sum leaf absent.
C10_AbsentIsNotZeroLeaf ==
    /\ pending # None => ~IsZeroLeaf(unwrap(pending))
    /\ \A i \in DOMAIN tree_levels.items :
          LET n == tree_levels.items[i] IN
          /\ ~IsZeroLeaf(n)
          /\ n.kind = "Branch" => (~IsZeroLeaf(n.bn.left) /\ ~IsZeroLeaf(n.bn.right))
    /\ (tempty # None /\ unwrap(tnode).value = Zeros(HASH_SIZE) /\ unwrap(tnode).sum = 0) =>
          unwrap(tempty) = FALSE

====
